---------------------------- MODULE Spec2Model ----------------------------
(***************************************************************************)
(* Spatio-temporal graph-recurrent models (GCN / GAT stacks, TGCNCell,     *)
(* TGCN, A3TGCN, DCGRUCell, DCGNN) as a state machine.                     *)
(*                                                                         *)
(* Tensors are sequences of rows of fixed-point numbers: the integer k     *)
(* stands for k / One.  Every product is rounded to the nearest            *)
(* representable value (ties to even), as a floating-point product is;     *)
(* sums of representable values are exact.  sigmoid, tanh and exp are      *)
(* monotone piecewise stand-ins with the same range and the same value at  *)
(* 0 as the real functions.  The library convolutions (torch_geometric     *)
(* GCNConv / GATv2Conv) are modelled by their aggregation contract.        *)
(***************************************************************************)
EXTENDS Integers, Sequences, FiniteSets, TLC

\* ------------------------------------------------------------------------
\* Bounds of the model
\* ------------------------------------------------------------------------
\* The fixed-point representation of 1.0.
One == 4
\* Longest window (number of timesteps T of x) a forward pass is given.
MaxT == 2
\* Largest layers_nb a model is constructed with.
MaxLayers == 2

\* ------------------------------------------------------------------------
\* Fixed-point arithmetic
\* ------------------------------------------------------------------------
Half == One \div 2

Abs(a) == IF a < 0 THEN -a ELSE a

Min2(a, b) == IF a <= b THEN a ELSE b

Max2(a, b) == IF a >= b THEN a ELSE b

Clamp(a, lo, hi) == IF a < lo THEN lo ELSE IF a > hi THEN hi ELSE a

\* a / b rounded to the nearest integer, ties to even (b > 0).
RoundDiv(a, b) ==
    LET q == a \div b
        r == a % b
    IN  IF 2 * r < b THEN q
        ELSE IF 2 * r > b THEN q + 1
        ELSE IF q % 2 = 0 THEN q ELSE q + 1

\* The rounded product of two fixed-point numbers.
Mul(a, b) == RoundDiv(a * b, One)

\* The sequence s with every element evaluated (once).
Tup(s) == s \o <<>>

RECURSIVE SumTup(_)
SumTup(s) == IF s = <<>> THEN 0 ELSE Head(s) + SumTup(Tail(s))

\* The sum of the elements of a sequence.
SumSeq(s) == SumTup(Tup(s))

\* The matrix m with every entry evaluated.
Mat(m) == Tup([r \in 1..Len(m) |-> Tup(m[r])])

RECURSIVE MaxSeq(_)
MaxSeq(s) == IF Len(s) = 1 THEN s[1] ELSE Max2(Head(s), MaxSeq(Tail(s)))

\* F.sigmoid: monotone, range [0, 1], sigmoid(0) = 1/2, slope 1/4 at 0.
Sigmoid(z) == Clamp(RoundDiv(z, 4) + Half, 0, One)

\* Tanh, were the candidate left unsquashed.
TanhUnbounded(z) == z

\* F.tanh: monotone, odd, range [-1, 1], slope 1 at 0.
Tanh(z) == Clamp(z, -One, One)

\* F.relu
Relu(z) == IF z < 0 THEN 0 ELSE z

\* The leaky rectifier inside GATv2Conv (negative_slope = 0.2).
LeakyRelu(z) == IF z < 0 THEN RoundDiv(z, 5) ELSE z

\* exp on the clipped argument: 1 + z + z^2/2, positive for every z.
Exp(z) ==
    LET c == Clamp(z, -2 * One, 2 * One)
    IN  One + c + RoundDiv(c * c, 2 * One)

\* softmax of a sequence of scores: exp(z - max) / sum, each weight rounded.
Softmax(zs) ==
    IF zs = <<>> THEN <<>>
    ELSE LET z == Tup(zs)
             m == MaxSeq(z)
             e == Tup([k \in 1..Len(z) |-> Exp(z[k] - m)])
             tot == SumSeq(e)
         IN  Tup([k \in 1..Len(z) |-> RoundDiv(e[k] * One, tot)])

\* ------------------------------------------------------------------------
\* Matrices (Nodes_nb rows, each a sequence of feature values)
\* ------------------------------------------------------------------------
Rows(m) == Len(m)

Cols(m) == IF Len(m) = 0 THEN 0 ELSE Len(m[1])

\* torch.zeros(n, w)
Zeros(n, w) ==
    Mat([r \in 1..n |-> [c \in 1..w |-> 0]])

\* torch.cat([a, b], dim=-1)
Cat(a, b) ==
    Mat([r \in 1..Len(a) |-> a[r] \o b[r]])

\* elementwise map and elementwise binary operations
MapSigmoid(m) ==
    Mat([r \in 1..Len(m) |-> [c \in 1..Len(m[r]) |-> Sigmoid(m[r][c])]])

MapTanh(m) ==
    Mat([r \in 1..Len(m) |-> [c \in 1..Len(m[r]) |-> Tanh(m[r][c])]])

MapRelu(m) ==
    Mat([r \in 1..Len(m) |-> [c \in 1..Len(m[r]) |-> Relu(m[r][c])]])

\* r * h
Hadamard(a, b) ==
    Mat([r \in 1..Len(a) |-> [c \in 1..Len(a[r]) |-> Mul(a[r][c], b[r][c])]])

\* nn.Linear: y = x W^T + b, W with one row per output feature.
Linear(lin, m) ==
    Mat([r \in 1..Len(m) |->
        [o \in 1..Len(lin.W) |->
            SumSeq([k \in 1..Len(m[r]) |-> Mul(m[r][k], lin.W[o][k])]) + lin.b[o]]])

\* x[:, :, t] for the 0-based timestep t of a (Nodes, Features, SeqLength) tensor.
Slice(xx, tt) ==
    Mat([n \in 1..Len(xx) |-> [f \in 1..Len(xx[n]) |-> xx[n][f][tt + 1]]])

\* x.shape[0], x.shape[1], x.shape[-1]
NodesOf(xx) == Len(xx)

WidthOf(xx) == IF Len(xx) = 0 THEN 0 ELSE Len(xx[1])

SeqLenOf(xx) == IF Len(xx) = 0 \/ Len(xx[1]) = 0 THEN 0 ELSE Len(xx[1][1])

\* ------------------------------------------------------------------------
\* Graph convolution operators (torch_geometric, used through their contract)
\* ------------------------------------------------------------------------
\* edge_index is a sequence of <<source, target>> pairs of 0-based node ids,
\* edge_weight the parallel sequence of weights.
EdgeIndexOk(ei, ew, n) ==
    /\ Len(ew) = Len(ei)
    /\ \A e \in 1..Len(ei) : ei[e][1] \in 0..(n - 1) /\ ei[e][2] \in 0..(n - 1)

\* x W^T, without bias
Project(W, m) ==
    Mat([r \in 1..Len(m) |->
        [o \in 1..Len(W) |-> SumSeq([k \in 1..Len(m[r]) |-> Mul(m[r][k], W[o][k])])]])

\* The edges that point at row n (node n - 1), in edge order.
Incoming(ei, n) ==
    SelectSeq([e \in 1..Len(ei) |-> e], LAMBDA e : ei[e][2] = n - 1)

\* GCNConv(in, out): every node takes the edge-weighted, degree-normalised
\* aggregate of the projected features of its in-neighbours and of itself
\* (self loop of weight 1), plus the bias.  GCNNode is the row of node n - 1.
GCNNode(conv, xw, ei, ew, n) ==
    LET inc == Incoming(ei, n)
        wts == Tup([k \in 1..Len(inc) |-> ew[inc[k]]])
        srcs == Tup([k \in 1..Len(inc) |-> ei[inc[k]][1] + 1])
        deg == One + SumSeq(wts)
    IN  Tup([o \in 1..Len(conv.W) |->
            RoundDiv((xw[n][o]
                      + SumSeq([k \in 1..Len(inc) |-> Mul(wts[k], xw[srcs[k]][o])])) * One,
                     deg)
            + conv.b[o]])

GCNConv(conv, m, ei, ew) ==
    LET xw == Project(conv.W, m)
    IN  Tup([n \in 1..Len(m) |-> GCNNode(conv, xw, ei, ew, n)])

\* GATv2Conv(in, out, edge_dim=1): as above, with the weight of every incoming
\* edge (and of the self loop, whose edge feature is the mean of the incoming
\* ones) replaced by an attention coefficient, the softmax over the node's
\* in-neighbours of a score computed from both endpoints and the edge weight.
\* GATNode is the row of node n - 1.
GATNode(conv, xl, xr, ei, ew, n) ==
    LET inc == Incoming(ei, n)
        wts == Tup([k \in 1..Len(inc) |-> ew[inc[k]]])
        fill == IF inc = <<>> THEN 0 ELSE RoundDiv(SumSeq(wts), Len(inc))
        \* sources and edge features of the neighbourhood, self loop last
        srcs == Tup([k \in 1..Len(inc) |-> ei[inc[k]][1] + 1]) \o <<n>>
        feat == wts \o <<fill>>
        scores ==
            Tup([k \in 1..Len(srcs) |->
                SumSeq([o \in 1..Len(conv.W) |->
                    Mul(conv.att[o],
                        LeakyRelu(xl[srcs[k]][o] + xr[n][o] + Mul(conv.We[o], feat[k])))])])
        alpha == Softmax(scores)
    IN  Tup([o \in 1..Len(conv.W) |->
            SumSeq([k \in 1..Len(srcs) |-> Mul(alpha[k], xl[srcs[k]][o])]) + conv.b[o]])

GATv2Conv(conv, m, ei, ew) ==
    LET xl == Project(conv.W, m)
        xr == Project(conv.Wr, m)
    IN  Tup([n \in 1..Len(m) |-> GATNode(conv, xl, xr, ei, ew, n)])

ConvApply(conv, m, ei, ew) ==
    IF conv.op = "GATv2Conv" THEN GATv2Conv(conv, m, ei, ew) ELSE GCNConv(conv, m, ei, ew)

\* ------------------------------------------------------------------------
\* Learned parameters: fixed per model, drawn from a small family by a seed
\* ------------------------------------------------------------------------
Weight(seed, tag, o, k) == (((seed + 7 * tag + 3 * o + 5 * k) % 5) - 2) * Half

\* nn.Linear(inw, outw)
MakeLinear(seed, tag, inw, outw) ==
    [in_features |-> inw,
     W |-> [o \in 1..outw |-> [k \in 1..inw |-> Weight(seed, tag, o, k)]],
     b |-> [o \in 1..outw |-> Weight(seed, tag + 1, o, 0)]]

\* GCNConv(inw, outw, bias) / GATv2Conv(inw, outw, bias, edge_dim=1)
MakeConv(op, seed, tag, inw, outw) ==
    [op |-> op, in_channels |-> inw, out_channels |-> outw,
     W |-> [o \in 1..outw |-> [k \in 1..inw |-> Weight(seed, tag, o, k)]],
     Wr |-> [o \in 1..outw |-> [k \in 1..inw |-> Weight(seed, tag + 2, o, k)]],
     We |-> [o \in 1..outw |-> Weight(seed, tag + 3, o, 1)],
     att |-> [o \in 1..outw |-> Weight(seed, tag + 4, o, 2)],
     b |-> [o \in 1..outw |-> Weight(seed, tag + 1, o, 0)]]

\* ------------------------------------------------------------------------
\* GCN and GAT: the convolution stacks
\* ------------------------------------------------------------------------
\* self.convs of GCN.__init__ / GAT.__init__
MakeConvs(op, seed, tag, in_channels, layer_sizes) ==
    <<MakeConv(op, seed, tag, in_channels, layer_sizes[1])>>
    \o [i \in 1..(Len(layer_sizes) - 1) |->
            MakeConv(op, seed, tag + 5 * i, layer_sizes[i], layer_sizes[i + 1])]

GCNInit(seed, tag, in_channels, layer_sizes) ==
    [stack |-> "GCN", convs |-> MakeConvs("GCNConv", seed, tag, in_channels, layer_sizes)]

GATInit(seed, tag, in_channels, layer_sizes) ==
    [stack |-> "GAT", convs |-> MakeConvs("GATv2Conv", seed, tag, in_channels, layer_sizes)]

\* A convolution raises when the feature width w it is given is not the one
\* it was built for; the next convolution is given its output width.
RECURSIVE StackAcceptsFrom(_, _, _, _, _)
StackAcceptsFrom(convs, k, w, n, ok) ==
    IF k > Len(convs) THEN ok
    ELSE StackAcceptsFrom(convs, k + 1, convs[k].out_channels, n,
                          ok /\ w = convs[k].in_channels)

\* Whether every convolution of the stack accepts what it is given: the
\* widths chain, and no edge names a node that does not exist.
StackAccepts(net, m, ei, ew) ==
    /\ EdgeIndexOk(ei, ew, Rows(m))
    /\ StackAcceptsFrom(net.convs, 1, Cols(m), Rows(m), TRUE)

\* GCN.forward: relu after every convolution, the last included.
RECURSIVE GCNForwardFrom(_, _, _, _, _)
GCNForwardFrom(convs, k, m, ei, ew) ==
    IF k > Len(convs) THEN m
    ELSE GCNForwardFrom(convs, k + 1, MapRelu(ConvApply(convs[k], m, ei, ew)), ei, ew)

GCNForward(net, m, ei, ew) == GCNForwardFrom(net.convs, 1, m, ei, ew)

\* GAT.forward: relu after every convolution but the last, whose raw output
\* is returned.
RECURSIVE GATForwardFrom(_, _, _, _, _)
GATForwardFrom(convs, k, m, ei, ew) ==
    IF k >= Len(convs) THEN ConvApply(convs[Len(convs)], m, ei, ew)
    ELSE GATForwardFrom(convs, k + 1, MapRelu(ConvApply(convs[k], m, ei, ew)), ei, ew)

\* GATForward, were the last convolution rectified as the others are.
GATForwardRectified(net, m, ei, ew) == MapRelu(GATForwardFrom(net.convs, 1, m, ei, ew))

GATForward(net, m, ei, ew) == GATForwardFrom(net.convs, 1, m, ei, ew)

\* self.gcn(x, edge_index, edge_weight), whichever stack the cell holds
StackForward(net, m, ei, ew) ==
    IF net.stack = "GAT" THEN GATForward(net, m, ei, ew) ELSE GCNForward(net, m, ei, ew)

\* ------------------------------------------------------------------------
\* TGCNCell: the fused-gate cell
\* ------------------------------------------------------------------------
\* What a cell invocation that raises leaves behind.
Raised == [ok |-> FALSE]

\* nn.Linear raises when the width of its input is not in_features.
LinearAccepts(lin, m) == Cols(m) = lin.in_features

\* TGCNCell.__init__
TGCNCellInit(seed, tag, in_channels, hidden_size, use_gat) ==
    [cell |-> "TGCNCell", in_channels |-> in_channels, hidden_size |-> hidden_size,
     gcn |-> IF use_gat
             THEN GATInit(seed, tag, in_channels, <<hidden_size, hidden_size>>)
             ELSE GCNInit(seed, tag, in_channels, <<hidden_size, hidden_size>>),
     lin_u |-> MakeLinear(seed, tag + 11, 2 * hidden_size + in_channels, hidden_size),
     lin_r |-> MakeLinear(seed, tag + 13, 2 * hidden_size + in_channels, hidden_size),
     lin_c |-> MakeLinear(seed, tag + 15, 2 * hidden_size + in_channels, hidden_size)]

\* GRUUpdate, were the candidate added whole: u * h + c.
GRUUpdateNoComplement(u, hh, c) ==
    Mat([r \in 1..Len(hh) |->
        [k \in 1..Len(hh[r]) |-> Mul(u[r][k], hh[r][k]) + c[r][k]]])

\* u * h + (1 - u) * c, Eq. 6
GRUUpdate(u, hh, c) ==
    Mat([r \in 1..Len(hh) |->
        [k \in 1..Len(hh[r]) |-> Mul(u[r][k], hh[r][k]) + Mul(One - u[r][k], c[r][k])]])

\* TGCNCellForward, were the candidate computed from the previous hidden
\* state itself, the reset gate left unused: torch.cat([x, gcn_out, h]).
TGCNCellForwardNoReset(cell, xx, ei, ew, hh) ==
    IF ~StackAccepts(cell.gcn, xx, ei, ew) THEN Raised
    ELSE
    LET gcn_out == MapSigmoid(StackForward(cell.gcn, xx, ei, ew))
        xgh == Cat(Cat(xx, gcn_out), hh)
    IN  IF ~(LinearAccepts(cell.lin_u, xgh) /\ LinearAccepts(cell.lin_r, xgh)
             /\ LinearAccepts(cell.lin_c, xgh)) THEN Raised
        ELSE
        LET u == MapSigmoid(Linear(cell.lin_u, xgh))
            r == MapSigmoid(Linear(cell.lin_r, xgh))
            c == MapTanh(Linear(cell.lin_c, xgh))
        IN  [ok |-> TRUE, gcn_out |-> gcn_out, u |-> u, r |-> r, c |-> c,
             stacks |-> 1, h_new |-> GRUUpdate(u, hh, c)]

\* TGCNCell.forward, with the values of its locals
TGCNCellForward(cell, xx, ei, ew, hh) ==
    IF ~StackAccepts(cell.gcn, xx, ei, ew) THEN Raised
    ELSE
    LET gcn_out == MapSigmoid(StackForward(cell.gcn, xx, ei, ew))
        xgh == Cat(Cat(xx, gcn_out), hh)
    IN  IF ~(LinearAccepts(cell.lin_u, xgh) /\ LinearAccepts(cell.lin_r, xgh)) THEN Raised
        ELSE
        LET u == MapSigmoid(Linear(cell.lin_u, xgh))
            r == MapSigmoid(Linear(cell.lin_r, xgh))
            xgrh == Cat(Cat(xx, gcn_out), Hadamard(r, hh))
        IN  IF ~LinearAccepts(cell.lin_c, xgrh) THEN Raised
            ELSE
            LET c == MapTanh(Linear(cell.lin_c, xgrh))
            IN  [ok |-> TRUE, gcn_out |-> gcn_out, u |-> u, r |-> r, c |-> c,
                 stacks |-> 1, h_new |-> GRUUpdate(u, hh, c)]

\* ------------------------------------------------------------------------
\* DCGRUCell: the split-gate cell
\* ------------------------------------------------------------------------
MakeStack(use_gat, seed, tag, in_channels, layer_sizes) ==
    IF use_gat THEN GATInit(seed, tag, in_channels, layer_sizes)
    ELSE GCNInit(seed, tag, in_channels, layer_sizes)

\* DCGRUCell.__init__
DCGRUCellInit(seed, tag, in_channels, hidden_size, use_gat) ==
    [cell |-> "DCGRUCell", in_channels |-> in_channels, hidden_size |-> hidden_size,
     gcn_r |-> MakeStack(use_gat, seed, tag + 11, in_channels + hidden_size,
                         <<hidden_size, hidden_size>>),
     gcn_u |-> MakeStack(use_gat, seed, tag + 13, in_channels + hidden_size,
                         <<hidden_size, hidden_size>>),
     gcn_c |-> MakeStack(use_gat, seed, tag + 15, in_channels + hidden_size,
                         <<hidden_size, hidden_size>>)]

\* DCGRUCellForward, were one stack shared by the three gates: self.gcn_r
\* called once on [x, h] and its result used for r, u and c.
DCGRUCellForwardShared(cell, xx, ei, ew, hh) ==
    LET x_h == Cat(xx, hh)
    IN  IF ~StackAccepts(cell.gcn_r, x_h, ei, ew) THEN Raised
        ELSE
        LET g == StackForward(cell.gcn_r, x_h, ei, ew)
        IN  [ok |-> TRUE, u |-> MapSigmoid(g), r |-> MapSigmoid(g), c |-> MapTanh(g),
             stacks |-> 1, h_new |-> GRUUpdate(MapSigmoid(g), hh, MapTanh(g))]

\* DCGRUCell.forward, with the values of its locals
DCGRUCellForward(cell, xx, ei, ew, hh) ==
    LET x_h == Cat(xx, hh)
    IN  IF ~(StackAccepts(cell.gcn_r, x_h, ei, ew) /\ StackAccepts(cell.gcn_u, x_h, ei, ew))
        THEN Raised
        ELSE
        LET r == MapSigmoid(StackForward(cell.gcn_r, x_h, ei, ew))
            u == MapSigmoid(StackForward(cell.gcn_u, x_h, ei, ew))
            x_rh == Cat(xx, Hadamard(r, hh))
        IN  IF ~StackAccepts(cell.gcn_c, x_rh, ei, ew) THEN Raised
            ELSE
            LET c == MapTanh(StackForward(cell.gcn_c, x_rh, ei, ew))
            IN  [ok |-> TRUE, u |-> u, r |-> r, c |-> c,
                 stacks |-> 3, h_new |-> GRUUpdate(u, hh, c)]

\* CellForward, were the error caught in the cell, which then hands back the
\* hidden state it was given.
CellForwardLenient(cell, xx, ei, ew, hh) ==
    LET res == IF cell.cell = "TGCNCell" THEN TGCNCellForward(cell, xx, ei, ew, hh)
               ELSE DCGRUCellForward(cell, xx, ei, ew, hh)
    IN  IF res.ok THEN res ELSE [ok |-> TRUE, h_new |-> hh]

\* cell(h, edge_index, edge_weight, h_prev[i])
CellForward(cell, xx, ei, ew, hh) ==
    IF cell.cell = "TGCNCell" THEN TGCNCellForward(cell, xx, ei, ew, hh)
    ELSE DCGRUCellForward(cell, xx, ei, ew, hh)

\* ------------------------------------------------------------------------
\* TGCN, A3TGCN, DCGNN: construction
\* ------------------------------------------------------------------------
\* ClampLayers, were the requested count taken as it is.
ClampLayersNone(layers_nb) == layers_nb

\* self.layers_nb = max(1, layers_nb)
ClampLayers(layers_nb) == Max2(1, layers_nb)

\* MakeCells, were use_gat handed to the first cell only: the later cells
\* are built with its default.
MakeCellsFirstOnly(kind, seed, in_channels, hidden_size, layers, use_gat) ==
    LET mk(tag, inw, gat) ==
            IF kind = "DCGNN" THEN DCGRUCellInit(seed, tag, inw, hidden_size, gat)
            ELSE TGCNCellInit(seed, tag, inw, hidden_size, gat)
    IN  <<mk(0, in_channels, use_gat)>>
        \o [k \in 1..(layers - 1) |-> mk(20 * k, hidden_size, TRUE)]

\* MakeCells, were every cell built to read in_channels features.
MakeCellsInputWidth(kind, seed, in_channels, hidden_size, layers, use_gat) ==
    LET mk(tag, inw) ==
            IF kind = "DCGNN" THEN DCGRUCellInit(seed, tag, inw, hidden_size, use_gat)
            ELSE TGCNCellInit(seed, tag, inw, hidden_size, use_gat)
    IN  <<mk(0, in_channels)>> \o [k \in 1..(layers - 1) |-> mk(20 * k, in_channels)]

\* self.cells: the first cell reads in_channels features, the others
\* hidden_size features.
MakeCells(kind, seed, in_channels, hidden_size, layers, use_gat) ==
    LET mk(tag, inw) ==
            IF kind = "DCGNN" THEN DCGRUCellInit(seed, tag, inw, hidden_size, use_gat)
            ELSE TGCNCellInit(seed, tag, inw, hidden_size, use_gat)
    IN  <<mk(0, in_channels)>> \o [k \in 1..(layers - 1) |-> mk(20 * k, hidden_size)]

\* self.attention[0] after nn.init.uniform_: weights drawn from [0, 1).
MakeAttention(seed, hidden_size) ==
    [in_features |-> hidden_size,
     W |-> <<[k \in 1..hidden_size |-> One - 1 - ((seed + k) % 2)]>>,
     b |-> <<Weight(seed, 7, 1, 0)>>]

\* TGCN.__init__ / A3TGCN.__init__ / DCGNN.__init__
ModelInit(a) ==
    [kind |-> a.kind,
     hidden_size |-> a.hidden_size,
     layers_nb |-> ClampLayers(a.layers_nb),
     cells |-> MakeCells(a.kind, a.seed, a.in_channels, a.hidden_size,
                         ClampLayers(a.layers_nb), a.use_gat),
     attention |-> IF a.kind = "A3TGCN" THEN <<MakeAttention(a.seed, a.hidden_size)>>
                   ELSE <<>>,
     out |-> [lin |-> MakeLinear(a.seed, 8, a.hidden_size, a.out_channels),
              act |-> a.output_activation]]

\* ------------------------------------------------------------------------
\* The forward pass: helpers
\* ------------------------------------------------------------------------
\* h_final = torch.zeros(x.shape[0], x.shape[-1], self.hidden_size), kept as
\* one (Nodes x Hidden) matrix per timestep.
InitHistory(m, n, len) == [k \in 1..len |-> Zeros(n, m.hidden_size)]

\* LayerInput, were the window walked from its last timestep to its first.
LayerInputReversed(xx, tt) == Slice(xx, SeqLenOf(xx) - 1 - tt)

\* h = x[:, :, t]: what layer 0 is given at timestep t
LayerInput(xx, tt) == Slice(xx, tt)

\* Readout, were the hidden state returned as it is.
ReadoutNoLinear(m, hh) == hh

\* self.out: the linear projection, then the output activation
Readout(m, hh) ==
    LET y == Linear(m.out.lin, hh)
    IN  IF m.out.act = "sigmoid" THEN MapSigmoid(y) ELSE y

\* Attention, were the softmax taken over the nodes (dim=0): per timestep,
\* the weights of the nodes sum to one.
AttentionOverNodes(m, hf, n) ==
    LET w == [k \in 1..Len(hf) |->
                 Softmax([r \in 1..n |-> Linear(m.attention[1], <<hf[k][r]>>)[1][1]])]
    IN  [r \in 1..n |-> [k \in 1..Len(hf) |-> w[k][r]]]

\* self.attention(h_final): per node, the softmax over the timesteps (dim=1) of
\* the scalar score of each timestep's hidden vector.  att[n][t] is the weight
\* of node n at timestep t.
Attention(m, hf, n) ==
    [r \in 1..n |->
        Softmax([k \in 1..Len(hf) |-> Linear(m.attention[1], <<hf[k][r]>>)[1][1]])]

\* Pool, were the last timestep's hidden state returned alone: h_final[:, -1, :].
PoolLastTimestep(m, hf, att, n) ==
    IF Len(hf) = 0 THEN Zeros(n, m.hidden_size) ELSE hf[Len(hf)]

\* torch.sum(h_final * att, dim=1)
Pool(m, hf, att, n) ==
    [r \in 1..n |->
        [c \in 1..m.hidden_size |->
            SumSeq([k \in 1..Len(hf) |-> Mul(hf[k][r][c], att[r][k])])]]

\* ModelOutput, were the first layer's hidden state read out: self.out(h_prev[0]).
ModelOutputFirstLayer(m, hp, hf, n) ==
    IF m.kind = "A3TGCN" THEN Readout(m, Pool(m, hf, Attention(m, hf, n), n))
    ELSE Readout(m, hp[1])

\* What forward returns once the unroll loop has ended.
ModelOutput(m, hp, hf, n) ==
    IF m.kind = "A3TGCN" THEN Readout(m, Pool(m, hf, Attention(m, hf, n), n))
    ELSE Readout(m, hp[Len(hp)])

\* ------------------------------------------------------------------------
\* Constructor arguments and forward arguments the model is exercised with
\* ------------------------------------------------------------------------
Kinds == {"TGCN", "A3TGCN", "DCGNN"}

\* Model(in_channels, out_channels, hidden_size, layers_nb, output_activation,
\* use_gat), and the seed of the parameter values.
Args(kind, inw, outw, hs, layers, act, gat, seed) ==
    [kind |-> kind, in_channels |-> inw, out_channels |-> outw, hidden_size |-> hs,
     layers_nb |-> layers, output_activation |-> act, use_gat |-> gat, seed |-> seed]

\* Model(in_channels, out_channels, hidden_size): the arguments left out
\* take the defaults of the signature, layers_nb = 2, output_activation =
\* None, use_gat = True.
Defaulted(kind, inw, outw, hs, seed) == Args(kind, inw, outw, hs, 2, "none", TRUE, seed)

\* Every kind of model with every layers_nb from 0 to MaxLayers on the
\* attention stack, with a negative layers_nb on the plain stack, and with
\* wider features, hidden state and output and an output activation.
ArgSets ==
    {Args(k, 1, 1, 1, l, "none", TRUE, 1) : k \in Kinds, l \in 0..MaxLayers}
    \cup {Args(k, 1, 1, 1, -1, "none", FALSE, 1) : k \in Kinds}
    \cup {Args(k, 2, 3, 2, 2, "sigmoid", FALSE, 2) : k \in Kinds}
    \cup {Args(k, 1, 1, 2, 2, "none", TRUE, 1) : k \in Kinds}

\* The feature value of node n, channel f in a column of kind c.
ColumnValue(c, n, f) ==
    IF c = 1 THEN One
    ELSE IF (n + f) % 2 = 0 THEN -One ELSE Half

\* The (n x f x Len(cs)) tensor whose timestep k is the column of kind cs[k].
XTensor(n, f, cs) ==
    [r \in 1..n |-> [c \in 1..f |-> [k \in 1..Len(cs) |-> ColumnValue(cs[k], r, c)]]]

\* The windows: every length up to MaxT, columns of kind 1 with, possibly,
\* a last column of kind 2.
ColumnSeqs ==
    {[k \in 1..len |-> IF k = len THEN c ELSE 1] : len \in 0..MaxT, c \in {1, 2}}

\* A weighted two-node ring (whose node 1 does not exist in a one-node
\* sample) and a single self edge on node 0.
Ring == [edge_index |-> <<<<0, 1>>, <<1, 0>>>>, edge_weight |-> <<Half, One>>]

SelfEdge == [edge_index |-> <<<<0, 0>>>>, edge_weight |-> <<One>>]

Sample(xx, g) == [x |-> xx, edge_index |-> g.edge_index, edge_weight |-> g.edge_weight]

\* The samples forward is called with: two-node windows of every length up
\* to MaxT on the ring, and samples of other node counts and feature widths.
SampleSet ==
    {Sample(XTensor(2, 1, cs), Ring) : cs \in ColumnSeqs}
    \cup {Sample(XTensor(2, 1, <<1>>), SelfEdge),
          Sample(XTensor(1, 1, <<>>), Ring),
          Sample(XTensor(1, 1, <<2>>), Ring),
          Sample(XTensor(1, 1, <<2>>), SelfEdge),
          Sample(XTensor(3, 1, <<1>>), Ring),
          Sample(XTensor(2, 2, <<>>), Ring),
          Sample(XTensor(2, 2, <<2>>), Ring)}

\* ------------------------------------------------------------------------
\* State
\* ------------------------------------------------------------------------
VARIABLES
    args,         \* the arguments the model was constructed with
    model,        \* the constructed module: structure and learned parameters
    x,            \* forward's argument x (Nodes, Features, SeqLength)
    edge_index,   \* forward's argument edge_index
    edge_weight,  \* forward's argument edge_weight
    pc,           \* where forward is: idle, time, layer, record, done, failed
    h_prev,       \* forward's local h_prev: one hidden state per layer
    h,            \* forward's local h
    t,            \* forward's loop variable t
    i,            \* forward's loop variable i
    h_final,      \* A3TGCN.forward's local h_final
    att,          \* A3TGCN.forward's local att
    trace,        \* the cell invocations of the current pass, in order
    out,          \* what the current pass returned (<<>>: nothing)
    first,        \* the first pass made on the model, once it has ended
    history,      \* what preceded the current pass: "fresh" (nothing), "same"
                  \* (a pass on the same sample), "other" (on another sample)
    sample,       \* the Data sample the label transform is given and returns
    dataset,      \* the notebook's dataset: the indices of its samples
    train_dataset,  \* the notebook's train_dataset (indices)
    test_dataset,   \* the notebook's test_dataset (indices)
    acc_data,     \* the samples the last measure_accuracy was given
    cm_data,      \* the samples the last get_confusion_matrix was given
    cell          \* the notebook cell run last

notebookVars == <<sample, dataset, train_dataset, test_dataset, acc_data, cm_data, cell>>

vars == <<args, model, x, edge_index, edge_weight, pc, h_prev, h, t, i,
          h_final, att, trace, out, first, history, notebookVars>>

\* ------------------------------------------------------------------------
\* The forward pass as a state machine
\* ------------------------------------------------------------------------
\* InitHidden, were the hidden states kept on the module between calls and
\* allocated only when their shape does not fit the new sample.
InitHiddenStale(m, n) ==
    IF Len(h_prev) = m.layers_nb /\ Rows(h_prev[1]) = n THEN h_prev
    ELSE [k \in 1..m.layers_nb |-> Zeros(n, m.hidden_size)]

\* h_prev = [torch.zeros(x.shape[0], self.hidden_size) for _ in range(self.layers_nb)]
InitHidden(m, n) == [k \in 1..m.layers_nb |-> Zeros(n, m.hidden_size)]

NoOutput == <<>>

\* The notebook has run no cell.
NotebookUnset ==
    /\ sample = <<>>
    /\ dataset = {}
    /\ train_dataset = {}
    /\ test_dataset = {}
    /\ acc_data = {}
    /\ cm_data = {}
    /\ cell = "none"

\* The model constructed with the arguments a: no forward pass made yet.
Constructed(a) ==
    /\ args = a
    /\ model = ModelInit(a)
    /\ x = <<>>
    /\ edge_index = <<>>
    /\ edge_weight = <<>>
    /\ pc = "idle"
    /\ h_prev = <<>>
    /\ h = <<>>
    /\ t = 0
    /\ i = 0
    /\ h_final = <<>>
    /\ att = <<>>
    /\ trace = <<>>
    /\ out = NoOutput
    /\ first = <<>>
    /\ history = "fresh"

\* The state after construction: no forward pass made yet.
Init ==
    /\ \E a \in ArgSets : Constructed(a)
    /\ NotebookUnset

\* What a pass leaves of itself when it ends (by return or by raising).
PassRecord(failed, result, hp) ==
    [x |-> x, edge_index |-> edge_index, edge_weight |-> edge_weight,
     failed |-> failed, out |-> result, h_prev |-> hp, trace |-> trace]

\* A forward pass reads the module and its arguments and writes neither:
\* h = x[:, :, t] is a view of x, and no operation writes through it.  The
\* notebook's data is out of its reach.
ReadOnly == UNCHANGED <<args, model, x, edge_index, edge_weight, history, notebookVars>>

\* model(x, edge_index, edge_weight): the call, up to the loop.  The new
\* frame's locals h, i and att are unbound until the code binds them.
Call(s) ==
    /\ pc \in {"idle", "done", "failed"}
    /\ x' = s.x
    /\ edge_index' = s.edge_index
    /\ edge_weight' = s.edge_weight
    /\ h_prev' = InitHidden(model, NodesOf(s.x))
    /\ h_final' = IF model.kind = "A3TGCN"
                  THEN InitHistory(model, NodesOf(s.x), SeqLenOf(s.x))
                  ELSE <<>>
    /\ h' = <<>>
    /\ i' = 0
    /\ att' = <<>>
    /\ t' = 0
    /\ trace' = <<>>
    /\ out' = NoOutput
    /\ pc' = "time"
    /\ history' = IF pc = "idle" THEN "fresh"
                  ELSE IF Sample(x, [edge_index |-> edge_index, edge_weight |-> edge_weight]) = s
                  THEN "same" ELSE "other"
    /\ UNCHANGED <<args, model, first, notebookVars>>

\* for t in range(x.shape[-1]): h = x[:, :, t]
BeginTimestep ==
    /\ pc = "time"
    /\ t < SeqLenOf(x)
    /\ h' = LayerInput(x, t)
    /\ i' = 0
    /\ pc' = "layer"
    /\ ReadOnly
    /\ UNCHANGED <<h_prev, t, h_final, att, trace, out, first>>

\* UpdateHidden, were every layer's carried state overwritten:
\* h_prev = [h for _ in h_prev].
UpdateHiddenBroadcast(hp, idx, hnew) == [k \in 1..Len(hp) |-> hnew]

\* UpdateHidden, were the assignment dedented out of the inner loop: it
\* runs once per timestep, after the last cell, for the last i only.
UpdateHiddenDedented(hp, idx, hnew) ==
    IF idx + 1 = Len(hp) THEN [hp EXCEPT ![idx + 1] = hnew] ELSE hp

\* UpdateHidden, were the assignment h_prev[-1] = h.
UpdateHiddenLast(hp, idx, hnew) == [hp EXCEPT ![Len(hp)] = hnew]

\* h_prev[i] = h
UpdateHidden(hp, idx, hnew) == [hp EXCEPT ![idx + 1] = hnew]

\* CellArgs, were the cells called without the edge weights (every edge
\* then weighs one).
CellArgsUnweighted ==
    [x_in |-> h, edge_index |-> edge_index,
     edge_weight |-> [k \in 1..Len(edge_weight) |-> One],
     h_in |-> h_prev[i + 1]]

\* The arguments of cell(h, edge_index, edge_weight, h_prev[i])
CellArgs ==
    [x_in |-> h, edge_index |-> edge_index, edge_weight |-> edge_weight,
     h_in |-> h_prev[i + 1]]

\* Invoke, were the cell's input features dropped at random (dropout left
\* active): the generator has moved on since the first pass, which kept
\* the features a later pass loses.
InvokeDropout ==
    LET a == CellArgs
        kept == IF history = "fresh" THEN a.x_in ELSE Zeros(Rows(a.x_in), Cols(a.x_in))
    IN  CellForward(model.cells[i + 1], kept, a.edge_index, a.edge_weight, a.h_in)

\* The invocation of cell i at timestep t, as the loop makes it.
Invoke ==
    LET a == CellArgs
    IN  CellForward(model.cells[i + 1], a.x_in, a.edge_index, a.edge_weight, a.h_in)

\* The loop's record of that invocation: which cell, at which timestep, given
\* what, with the values of the cell's locals.
Invocation(res) ==
    [t |-> t, i |-> i, cell |-> model.cells[i + 1].cell, args |-> CellArgs, res |-> res]

\* CellStep, were the timestep run again after its last cell (TGCN and
\* DCGNN): the loop over t does not advance.
CellStepAgain ==
    /\ pc = "layer"
    /\ i < Len(model.cells)
    /\ LET res == Invoke
       IN  /\ res.ok
           /\ h' = res.h_new
           /\ h_prev' = UpdateHidden(h_prev, i, res.h_new)
           /\ trace' = Append(trace, Invocation(res))
    /\ i' = i + 1
    /\ IF i + 1 < Len(model.cells) THEN pc' = "layer" /\ t' = t
       ELSE IF model.kind = "A3TGCN" THEN pc' = "record" /\ t' = t
       ELSE pc' = "time" /\ t' = IF Len(trace) < 2 * Len(model.cells) THEN t ELSE t + 1
    /\ ReadOnly
    /\ UNCHANGED <<h_final, att, out, first>>

\* for i, cell in enumerate(self.cells): h = cell(...); h_prev[i] = h
\* After the last cell the timestep ends (A3TGCN first records the history).
CellStep ==
    /\ pc = "layer"
    /\ i < Len(model.cells)
    /\ LET res == Invoke
       IN  /\ res.ok
           /\ h' = res.h_new
           /\ h_prev' = UpdateHidden(h_prev, i, res.h_new)
           /\ trace' = Append(trace, Invocation(res))
    /\ i' = i + 1
    /\ IF i + 1 < Len(model.cells) THEN pc' = "layer" /\ t' = t
       ELSE IF model.kind = "A3TGCN" THEN pc' = "record" /\ t' = t
       ELSE pc' = "time" /\ t' = t + 1
    /\ ReadOnly
    /\ UNCHANGED <<h_final, att, out, first>>

\* The cell raises: the exception leaves forward, which returns nothing.
CellRaise ==
    /\ pc = "layer"
    /\ i < Len(model.cells)
    /\ ~Invoke.ok
    /\ pc' = "failed"
    /\ first' = IF first = <<>> THEN <<PassRecord(TRUE, NoOutput, h_prev)>> ELSE first
    /\ ReadOnly
    /\ UNCHANGED <<h_prev, h, t, i, h_final, att, trace, out>>

\* h_final[:, t, :] = h   (A3TGCN only)
RecordHistory ==
    /\ pc = "record"
    /\ h_final' = [h_final EXCEPT ![t + 1] = h]
    /\ t' = t + 1
    /\ pc' = "time"
    /\ ReadOnly
    /\ UNCHANGED <<h_prev, h, i, att, trace, out, first>>

\* The loop has ended: return self.out(h_prev[-1]), or for A3TGCN
\* att = self.attention(h_final); return self.out(torch.sum(h_final * att, dim=1))
Return ==
    /\ pc = "time"
    /\ t >= SeqLenOf(x)
    /\ att' = IF model.kind = "A3TGCN" THEN Attention(model, h_final, NodesOf(x)) ELSE <<>>
    /\ out' = ModelOutput(model, h_prev, h_final, NodesOf(x))
    /\ pc' = "done"
    /\ first' = IF first = <<>> THEN <<PassRecord(FALSE, out', h_prev)>> ELSE first
    /\ ReadOnly
    /\ UNCHANGED <<h_prev, h, t, i, h_final, trace>>

Next ==
    \/ \E s \in SampleSet : Call(s)
    \/ BeginTimestep
    \/ CellStep
    \/ CellRaise
    \/ RecordHistory
    \/ Return

Spec == Init /\ [][Next]_vars

\* A step of a pass under way: forward is sequential code, which goes on to
\* its next statement.
PassStep == BeginTimestep \/ CellStep \/ CellRaise \/ RecordHistory \/ Return

\* The passes run on: no pass under way stops between two statements.  This
\* is weak fairness of PassStep, written out with the condition under which a
\* PassStep is enabled: a pass is under way (pc is "time", "layer" or
\* "record").
LiveSpec ==
    Spec /\ ([]<>(pc \notin {"time", "layer", "record"}) \/ []<><<PassStep>>_vars)

\* ------------------------------------------------------------------------
\* One cell on its own: TGCNCell.forward applied to any hidden state
\* ------------------------------------------------------------------------
\* Every (n x w) matrix whose entries are the representable values of [-1, 1].
HiddenStates(n, w) == [1..n -> [1..w -> -One..One]]

\* One-layer TGCN models: their single cell is the cell under study.
CellArgSets == {Args("TGCN", 1, 1, 1, 1, "none", g, sd) : g \in BOOLEAN, sd \in 0..4}

\* One-timestep samples on two nodes.
CellSamples == {Sample(XTensor(2, 1, <<c>>), Ring) : c \in {1, 2}}

\* The cell is about to be given x[:, :, 0], the graph and a hidden state hh.
CellInit ==
    /\ args \in CellArgSets
    /\ model = ModelInit(args)
    /\ \E s \in CellSamples :
          /\ x = s.x
          /\ edge_index = s.edge_index
          /\ edge_weight = s.edge_weight
    /\ \E hh \in HiddenStates(2, 1) : h_prev = <<Mat(hh)>>
    /\ h = LayerInput(x, 0)
    /\ pc = "cell"
    /\ t = 0
    /\ i = 0
    /\ h_final = <<>>
    /\ att = <<>>
    /\ trace = <<>>
    /\ out = NoOutput
    /\ first = <<>>
    /\ history = "fresh"
    /\ NotebookUnset

\* h_new = cell(x, edge_index, edge_weight, h)
CellApply ==
    /\ pc = "cell"
    /\ LET res == Invoke
       IN  /\ res.ok
           /\ h' = res.h_new
           /\ trace' = <<Invocation(res)>>
    /\ pc' = "applied"
    /\ ReadOnly
    /\ UNCHANGED <<h_prev, t, i, h_final, att, out, first>>

CellNext == CellApply

CellSpec == CellInit /\ [][CellNext]_vars

\* ------------------------------------------------------------------------
\* One stack on its own: GCN.forward and GAT.forward applied to any features
\* ------------------------------------------------------------------------
\* GCN(in_channels, layer_sizes) / GAT(in_channels, layer_sizes): stacks of
\* one, two and three convolutions, of equal and of changing widths.
StackArgSets ==
    {[stack |-> k, in_channels |-> 1, layer_sizes |-> ls, seed |-> sd] :
        k \in {"GCN", "GAT"}, ls \in {<<1>>, <<1, 1>>, <<2, 1>>, <<1, 2, 1>>}, sd \in 0..4}

\* The stack is about to be given a feature matrix xx on a graph; model is
\* the stack, x the parameter of its forward.
StackInit ==
    /\ args \in StackArgSets
    /\ model = MakeStack(args.stack = "GAT", args.seed, 0, args.in_channels, args.layer_sizes)
    /\ \E xx \in HiddenStates(2, 1) : x = Mat(xx)
    /\ \E g \in {Ring, SelfEdge} :
          /\ edge_index = g.edge_index
          /\ edge_weight = g.edge_weight
    /\ pc = "stack"
    /\ h_prev = <<>>
    /\ h = <<>>
    /\ t = 0
    /\ i = 0
    /\ h_final = <<>>
    /\ att = <<>>
    /\ trace = <<>>
    /\ out = NoOutput
    /\ first = <<>>
    /\ history = "fresh"
    /\ NotebookUnset

\* out = stack(x, edge_index, edge_weight)
StackApply ==
    /\ pc = "stack"
    /\ StackAccepts(model, x, edge_index, edge_weight)
    /\ out' = StackForward(model, x, edge_index, edge_weight)
    /\ pc' = "returned"
    /\ ReadOnly
    /\ UNCHANGED <<h_prev, h, t, i, h_final, att, trace, first>>

StackNext == StackApply

StackSpec == StackInit /\ [][StackNext]_vars

\* ------------------------------------------------------------------------
\* The classification notebook: label transform, split, reported results
\* ------------------------------------------------------------------------
\* a / b on tensors, the quotient rounded.
Div(a, b) == RoundDiv(a * One, b)

\* s[-1]
Last(s) == s[Len(s)]

\* (sample.close_price_y[:, -1] - sample.close_price[:, -1]) / sample.close_price[:, -1]
StockReturns(smp) ==
    Tup([n \in 1..Len(smp.close_price) |->
            Div(Last(smp.close_price_y[n]) - Last(smp.close_price[n]),
                Last(smp.close_price[n]))])

\* (...).mean()
Mean(s) == RoundDiv(SumSeq(s), Len(s))

\* future_close_price_to_buy_sell_class(sample)
future_close_price_to_buy_sell_class(smp) ==
    LET market_return == Mean(StockReturns(smp))
        returns == StockReturns(smp)
    IN  [smp EXCEPT !.returns = returns,
                    !.market_return = <<market_return>>,
                    !.y = Tup([n \in 1..Len(returns) |-> IF returns[n] >= 0 THEN 1 ELSE 0])]

\* A sample of the dataset as it is stored: per stock the close prices of
\* the past window and of the future window; y is the future close price.
RawSample(past, future) ==
    [close_price |-> past, close_price_y |-> future,
     y |-> Tup([n \in 1..Len(future) |-> Last(future[n])]),
     returns |-> <<>>, market_return |-> <<>>]

\* Samples of two stocks whose last past price is 1 or 2 and whose last
\* future price is 1, 2 or 3.
RawSamples ==
    {RawSample(<<<<2 * One, p[1] * One>>, <<One, p[2] * One>>>>,
               <<<<One, f[1] * One>>, <<3 * One, f[2] * One>>>>) :
        p \in [1..2 -> 1..2], f \in [1..2 -> 1..3]}

\* batch_size = 32
batch_size == 32

\* int(train_part * len(dataset)), train_part = .9
TrainCount(len) == (9 * len) \div 10

\* The sets left of S when k of its elements are dropped.
RECURSIVE Without(_, _)
Without(S, k) == IF k = 0 THEN {S} ELSE UNION {Without(S \ {e}, k - 1) : e \in S}

\* next(iter(DataLoader(ds, batch_size=size, shuffle=True))): the first batch
\* of a shuffled pass, any size samples of ds (all of ds when it has fewer).
FirstBatches(ds, size) ==
    IF Cardinality(ds) <= size THEN {ds} ELSE Without(ds, Cardinality(ds) - size)

\* The datasets the notebook is run on: every sample over a dataset of ten
\* samples, one sample over a dataset larger than a batch.
NotebookInputs ==
    {[sample |-> smp, len |-> 10] : smp \in RawSamples}
    \cup {[sample |-> RawSample(<<<<One, One>>, <<One, One>>>>,
                                <<<<One, One + Half>>, <<One, 3 * One>>>>),
           len |-> batch_size + 5]}

\* The notebook before its first cell: the dataset is stored, no model is
\* constructed.
NotebookInit ==
    /\ \E inp \in NotebookInputs :
          /\ sample = inp.sample
          /\ dataset = 0..(inp.len - 1)
    /\ train_dataset = {}
    /\ test_dataset = {}
    /\ acc_data = {}
    /\ cm_data = {}
    /\ cell = "none"
    /\ args = <<>>
    /\ model = <<>>
    /\ x = <<>>
    /\ edge_index = <<>>
    /\ edge_weight = <<>>
    /\ pc = "idle"
    /\ h_prev = <<>>
    /\ h = <<>>
    /\ t = 0
    /\ i = 0
    /\ h_final = <<>>
    /\ att = <<>>
    /\ trace = <<>>
    /\ out = NoOutput
    /\ first = <<>>
    /\ history = "fresh"

\* No model is run by these cells.
ModelIdle ==
    UNCHANGED <<args, model, x, edge_index, edge_weight, pc, h_prev, h, t, i,
                h_final, att, trace, out, first, history>>

\* dataset = SP100Stocks(..., transform=future_close_price_to_buy_sell_class);
\* dataset[0]: the sample is handed out transformed.
LoadDataset ==
    /\ cell = "none"
    /\ sample' = future_close_price_to_buy_sell_class(sample)
    /\ cell' = "load"
    /\ UNCHANGED <<dataset, train_dataset, test_dataset, acc_data, cm_data>>
    /\ ModelIdle

\* train_dataset, test_dataset = dataset[:int(train_part * len(dataset))],
\*                               dataset[int(train_part * len(dataset)):]
SplitDataset ==
    /\ cell = "load"
    /\ train_dataset' = {k \in dataset : k < TrainCount(Cardinality(dataset))}
    /\ test_dataset' = {k \in dataset : k >= TrainCount(Cardinality(dataset))}
    /\ cell' = "split"
    /\ UNCHANGED <<sample, dataset, acc_data, cm_data>>
    /\ ModelIdle

\* Results on train data: both metrics on full_train_data, one batch of the
\* whole train_dataset.
TrainResults ==
    /\ cell = "split"
    /\ \E full_train_data \in FirstBatches(train_dataset, Cardinality(train_dataset)) :
          /\ acc_data' = full_train_data
          /\ cm_data' = full_train_data
    /\ cell' = "train results"
    /\ UNCHANGED <<sample, dataset, train_dataset, test_dataset>>
    /\ ModelIdle

\* Results on test data:
\* acc, cm = measure_accuracy(model, next(iter(train_dataloader))),
\*           get_confusion_matrix(model, next(iter(train_dataloader)))
TestResults ==
    /\ cell = "train results"
    /\ \E acc_batch \in FirstBatches(train_dataset, batch_size) :
          acc_data' = acc_batch
    /\ \E cm_batch \in FirstBatches(train_dataset, batch_size) :
          cm_data' = cm_batch
    /\ cell' = "test results"
    /\ UNCHANGED <<sample, dataset, train_dataset, test_dataset>>
    /\ ModelIdle

NotebookNext == LoadDataset \/ SplitDataset \/ TrainResults \/ TestResults

NotebookSpec == NotebookInit /\ [][NotebookNext]_vars

\* ------------------------------------------------------------------------
\* Properties
\* ------------------------------------------------------------------------
\* The sample the current pass was called with, and the one the first pass
\* on this model was called with.
CurrentSample == Sample(x, [edge_index |-> edge_index, edge_weight |-> edge_weight])

FirstSample ==
    Sample(first[1].x, [edge_index |-> first[1].edge_index,
                        edge_weight |-> first[1].edge_weight])

\* The current pass is given the sample the first pass was given.
RepeatsFirst == first # <<>> /\ CurrentSample = FirstSample

ZeroHidden == [k \in 1..Len(model.cells) |-> Zeros(NodesOf(x), args.hidden_size)]

\* C1: every forward pass enters the unroll loop with every layer's hidden
\* state all zero, and a pass on a sample ends as the first pass ever made on
\* the model ended on that sample (same output, or an error both times),
\* whatever passes were made in between.
NoHiddenStateLeak ==
    /\ (pc = "time" /\ t = 0) => h_prev = ZeroHidden
    /\ (pc \in {"layer", "record"} /\ trace # <<>>) =>
            \A r \in 1..NodesOf(x) : \A c \in 1..args.hidden_size :
                trace[1].args.h_in[r][c] = 0
    /\ (pc = "done" /\ RepeatsFirst) => ~first[1].failed /\ out = first[1].out
    /\ (pc = "failed" /\ RepeatsFirst) => first[1].failed

\* A pass that follows a pass on another sample has ended on the first
\* pass's sample with a non-zero hidden state to carry.
NoHiddenStateLeakWitness ==
    /\ pc = "done"
    /\ history = "other"
    /\ RepeatsFirst
    /\ SeqLenOf(x) >= 1
    /\ h_prev # ZeroHidden
    /\ out = first[1].out

\* C2: the cells are invoked timestep after timestep in increasing order
\* and, within a timestep, layer after layer; layer 0 is given the slice
\* x[:, :, t], layer i >= 1 the output layer i-1 produced at the same
\* timestep, and every layer its own output of the timestep before (zeros at
\* timestep 0).
UnrollOrder ==
    LET L == Len(model.cells)
    IN  /\ pc = "layer" => Len(trace) = t * L + i
        /\ pc \in {"time", "done"} => Len(trace) = t * L
        /\ pc = "done" => t = SeqLenOf(x)
        /\ \A k \in 1..Len(trace) :
              LET e == trace[k]
              IN  /\ e.t = (k - 1) \div L
                  /\ e.i = (k - 1) % L
                  /\ e.args.x_in = IF e.i = 0 THEN Slice(x, e.t)
                                   ELSE trace[k - 1].res.h_new
                  /\ e.args.h_in = IF e.t = 0 THEN Zeros(NodesOf(x), args.hidden_size)
                                   ELSE trace[k - L].res.h_new

\* A layer i >= 1 has been invoked at a timestep t >= 1 where the layer
\* below produced something else than it had at t-1, and than the layer's own
\* previous output.
UnrollOrderWitness ==
    LET L == Len(model.cells)
    IN  \E k \in 1..Len(trace) :
            /\ trace[k].t >= 1
            /\ trace[k].i >= 1
            /\ trace[k - 1].res.h_new # trace[k - 1 - L].res.h_new
            /\ trace[k - 1].res.h_new # trace[k - L].res.h_new
            /\ trace[k].args.x_in = trace[k - 1].res.h_new
            /\ trace[k].args.h_in = trace[k - L].res.h_new

\* x[:, :, :k]
Truncate(xx, k) ==
    [r \in 1..Len(xx) |-> [c \in 1..Len(xx[r]) |-> SubSeq(xx[r][c], 1, k)]]

\* The first pass on the model was given the first k timesteps of the
\* current pass's x, on the same graph, and returned.
FirstRanPrefix(k) ==
    /\ first # <<>>
    /\ ~first[1].failed
    /\ first[1].x = Truncate(x, k)
    /\ first[1].edge_index = edge_index
    /\ first[1].edge_weight = edge_weight

\* C3: once the loop has processed the timesteps 0..t-1 of x, the hidden
\* states of all layers are the final hidden states of an independent pass on
\* x truncated to those timesteps, whatever the later timesteps of x hold,
\* and for TGCN and DCGNN their readout is that pass's output.
TemporalCausality ==
    (pc = "time" /\ FirstRanPrefix(t)) =>
        /\ h_prev = first[1].h_prev
        /\ model.kind # "A3TGCN" => Readout(model, h_prev[Len(h_prev)]) = first[1].out

\* A later pass has processed a proper, non-empty prefix of its window,
\* the pass on that prefix alone left non-zero hidden states, and the next
\* timestep of the window differs from the one just processed.
TemporalCausalityWitness ==
    /\ pc = "time"
    /\ t >= 1
    /\ t < SeqLenOf(x)
    /\ FirstRanPrefix(t)
    /\ history # "fresh"
    /\ h_prev = first[1].h_prev
    /\ h_prev # ZeroHidden
    /\ Slice(x, t) # Slice(x, t - 1)

\* C4: the model has max(1, layers_nb) cells, forward allocates as many
\* hidden states, and a model constructed with layers_nb < 1 is the model
\* constructed with layers_nb = 1 from the same other arguments.
LayerClamp ==
    LET wanted == IF args.layers_nb >= 1 THEN args.layers_nb ELSE 1
    IN  /\ Len(model.cells) = wanted
        /\ model.layers_nb = wanted
        /\ pc # "idle" => Len(h_prev) = wanted
        /\ args.layers_nb < 1 => model = ModelInit([args EXCEPT !.layers_nb = 1])

\* A model constructed with a negative layers_nb has run a forward pass
\* over a non-empty window, through its single cell.
LayerClampWitness ==
    /\ args.layers_nb < 0
    /\ pc = "done"
    /\ SeqLenOf(x) >= 1
    /\ Len(trace) = SeqLenOf(x)
    /\ Len(h_prev) = 1

\* C5: what forward returns has one row per node of x and out_channels
\* entries per row, whatever the length of the window and the number of
\* layers.
OutputShape ==
    pc = "done" =>
        /\ Len(out) = NodesOf(x)
        /\ \A r \in 1..Len(out) : Len(out[r]) = args.out_channels

\* A model whose out_channels differs from its hidden_size, from its
\* in_channels and from the number of nodes has returned from a pass over a
\* non-empty window.
OutputShapeWitness ==
    /\ pc = "done"
    /\ SeqLenOf(x) >= 1
    /\ Len(trace) >= 2
    /\ args.out_channels \notin {args.hidden_size, args.in_channels, NodesOf(x)}
    /\ Len(out) = NodesOf(x)
    /\ Len(out[1]) = args.out_channels

\* The invocations of the fused-gate cell made so far by the current pass.
FusedInvocations == {k \in 1..Len(trace) : trace[k].cell = "TGCNCell"}

\* Every entry of the matrix m lies in [lo, hi].
Within(m, lo, hi) ==
    \A r \in 1..Len(m) : \A c \in 1..Len(m[r]) : lo <= m[r][c] /\ m[r][c] <= hi

\* h_new lies componentwise between min(h, c) and max(h, c), up to slack.
Convex(e, slack) ==
    \A r \in 1..Len(e.res.h_new) : \A c \in 1..Len(e.res.h_new[r]) :
        /\ Min2(e.args.h_in[r][c], e.res.c[r][c]) - slack <= e.res.h_new[r][c]
        /\ e.res.h_new[r][c] <= Max2(e.args.h_in[r][c], e.res.c[r][c]) + slack

\* C6 as stated: in TGCNCell.forward u and r lie in [0, 1] and h_new lies
\* componentwise between min(h, c) and max(h, c).
GateBoundsExact ==
    \A k \in FusedInvocations :
        /\ Within(trace[k].res.u, 0, One)
        /\ Within(trace[k].res.r, 0, One)
        /\ Convex(trace[k], 0)

\* C6 (amended): in TGCNCell.forward u and r lie in [0, 1] and h_new lies
\* componentwise between min(h, c) and max(h, c) up to the rounding of the two
\* products u * h and (1 - u) * c, half a unit in the last place each.
GateBounds ==
    \A k \in FusedInvocations :
        /\ Within(trace[k].res.u, 0, One)
        /\ Within(trace[k].res.r, 0, One)
        /\ Convex(trace[k], 1)

\* A fused-gate cell has mixed a previous hidden state and a candidate that
\* differ, with a gate strictly between 0 and 1, into something strictly
\* between them.
GateBoundsWitness ==
    \E k \in FusedInvocations :
        LET e == trace[k]
        IN  /\ 0 < e.res.u[1][1] /\ e.res.u[1][1] < One
            /\ e.args.h_in[1][1] # e.res.c[1][1]
            /\ Min2(e.args.h_in[1][1], e.res.c[1][1]) < e.res.h_new[1][1]
            /\ e.res.h_new[1][1] < Max2(e.args.h_in[1][1], e.res.c[1][1])

\* The attention weights forward has computed: att[n][k] is the weight of
\* node n at timestep k - 1.
AttentionComputed == pc = "done" /\ model.kind = "A3TGCN"

\* C7 as stated: for every node the T attention weights are >= 0 and sum
\* to 1.
AttentionSumsToOne ==
    AttentionComputed =>
        /\ Len(att) = NodesOf(x)
        /\ \A n \in 1..Len(att) :
              /\ Len(att[n]) = SeqLenOf(x)
              /\ \A k \in 1..Len(att[n]) : att[n][k] >= 0
              /\ SumSeq(att[n]) = One

\* C7 (amended): there is one weight per node and timestep, every weight is
\* >= 0 and, over a window of T >= 1 timesteps, the T weights of every node
\* sum to 1 up to the rounding of each weight (half a unit in the last place
\* each).
AttentionNormalized ==
    AttentionComputed =>
        /\ Len(att) = NodesOf(x)
        /\ \A n \in 1..Len(att) :
              /\ Len(att[n]) = SeqLenOf(x)
              /\ \A k \in 1..Len(att[n]) : att[n][k] >= 0 /\ att[n][k] <= One
              /\ SeqLenOf(x) >= 1 => 2 * Abs(SumSeq(att[n]) - One) <= SeqLenOf(x)

\* An A3TGCN has returned from a pass over several timesteps on several
\* nodes, with a node whose weights differ between timesteps.
AttentionNormalizedWitness ==
    /\ AttentionComputed
    /\ SeqLenOf(x) >= 2
    /\ NodesOf(x) >= 2
    /\ \E n \in 1..Len(att) :
          /\ att[n][1] # att[n][2]
          /\ att[n][1] > 0
          /\ att[n][2] > 0
          /\ SumSeq(att[n]) = One

\* forward is running: called and neither returned nor raised.
InPass == pc \in {"time", "layer", "record"}

\* C8: from the call of forward to its end the feature tensor, the graph
\* and the learned parameters (which stay those of the construction) do not
\* change, and every cell invocation of the pass, at every timestep and
\* layer, is given the edge_index and edge_weight forward was called with.
ForwardFrame ==
    /\ [](/\ model = ModelInit(args)
          /\ \A k \in 1..Len(trace) :
                /\ trace[k].args.edge_index = edge_index
                /\ trace[k].args.edge_weight = edge_weight)
    /\ [][InPass => UNCHANGED <<x, edge_index, edge_weight, model, args>>]_vars

\* A pass on a graph whose edges weigh differently has invoked cells at
\* several timesteps and several layers and has returned.
ForwardFrameWitness ==
    /\ pc = "done"
    /\ Len(trace) >= 4
    /\ trace[1].t # trace[Len(trace)].t
    /\ trace[1].i # trace[Len(trace)].i
    /\ Len(edge_weight) = 2
    /\ edge_weight[1] # edge_weight[2]
    /\ trace[Len(trace)].args.edge_weight = edge_weight

EdgeOutOfRange ==
    \E e \in 1..Len(edge_index) :
        \/ edge_index[e][1] \notin 0..(NodesOf(x) - 1)
        \/ edge_index[e][2] \notin 0..(NodesOf(x) - 1)

\* The feature width of x is not the in_channels of the first cell, or
\* edge_index names a node that does not exist.
Mismatch == WidthOf(x) # args.in_channels \/ EdgeOutOfRange

\* What the caller can see once forward has raised: no output, the
\* parameters of the construction, and hidden states no cell has touched.
NothingObservable ==
    /\ out = NoOutput
    /\ model = ModelInit(args)
    /\ CurrentSample \in SampleSet
    /\ h_prev = ZeroHidden
    /\ trace = <<>>

\* C10 as stated: whenever x or edge_index mismatches, forward raises, at
\* the first cell invocation, returns nothing and leaves nothing behind.
ShapeMismatchAlwaysRaises ==
    /\ (pc = "done" => ~Mismatch)
    /\ (pc = "failed" => Mismatch /\ t = 0 /\ i = 0 /\ NothingObservable)

\* C10 (amended): when x or edge_index mismatches and the window has at
\* least one timestep, forward raises at its first cell invocation (timestep
\* 0, layer 0), returns nothing and leaves nothing behind; over an empty
\* window no cell is invoked and forward returns although the shapes
\* mismatch.  forward raises for no other reason.
ShapeMismatchRaises ==
    /\ (pc = "done" /\ Mismatch) => SeqLenOf(x) = 0
    /\ (InPass /\ Mismatch) => t = 0 /\ trace = <<>>
    /\ (pc = "failed" => /\ Mismatch
                         /\ SeqLenOf(x) >= 1
                         /\ t = 0
                         /\ i = 0
                         /\ NothingObservable)

\* On a model that has returned an output before, a pass over a non-empty
\* window whose edge_index names a missing node has raised.
ShapeMismatchRaisesWitness ==
    /\ pc = "failed"
    /\ EdgeOutOfRange
    /\ WidthOf(x) = args.in_channels
    /\ first # <<>>
    /\ ~first[1].failed
    /\ first[1].trace # <<>>
    /\ out = NoOutput

\* The linear projection followed by the configured activation (identity
\* when none is configured), applied to the (N x H) matrix hh.
Projected(hh) ==
    LET y == Linear(model.out.lin, hh)
    IN  IF args.output_activation = "sigmoid" THEN MapSigmoid(y) ELSE y

\* C11: what TGCN and DCGNN return is the projection, then the output
\* activation, of what the last invocation of the pass produced, which is the
\* hidden state of the last layer at the last timestep (of the zero state
\* over an empty window).
ReadoutOfLastState ==
    (pc = "done" /\ model.kind \in {"TGCN", "DCGNN"}) =>
        IF trace = <<>>
        THEN out = Projected(Zeros(NodesOf(x), args.hidden_size))
        ELSE LET e == trace[Len(trace)]
             IN  /\ e.t = SeqLenOf(x) - 1
                 /\ e.i = Len(model.cells) - 1
                 /\ out = Projected(e.res.h_new)

\* A model of several layers has returned from a pass over several
\* timesteps, and neither the layer below at the last timestep nor the last
\* layer at the timestep before would have given this output.
ReadoutOfLastStateWitness ==
    /\ pc = "done"
    /\ model.kind \in {"TGCN", "DCGNN"}
    /\ Len(model.cells) >= 2
    /\ SeqLenOf(x) >= 2
    /\ out = Projected(trace[Len(trace)].res.h_new)
    /\ out # Projected(trace[Len(trace) - 1].res.h_new)
    /\ out # Projected(trace[Len(trace) - Len(model.cells)].res.h_new)

\* The graph-convolution stacks of a cell: one in a TGCNCell, the three
\* gate stacks in a DCGRUCell.
StacksOfCell(c) ==
    IF c.cell = "TGCNCell" THEN <<c.gcn>> ELSE <<c.gcn_r, c.gcn_u, c.gcn_c>>

\* Every stack of every cell of the model m is of the kind stack and made
\* of convolutions op only.
AllStacks(m, stack, op) ==
    \A k \in 1..Len(m.cells) :
        LET ss == StacksOfCell(m.cells[k])
        IN  \A j \in 1..Len(ss) :
                /\ ss[j].stack = stack
                /\ \A l \in 1..Len(ss[j].convs) : ss[j].convs[l].op = op

\* C12: every stack of every cell of a model constructed with use_gat =
\* True is a GAT stack of GATv2Conv, of a model constructed with use_gat =
\* False a GCN stack of GCNConv, and a model constructed without the flag is
\* all GAT.
UniformOperator ==
    /\ args.use_gat => AllStacks(model, "GAT", "GATv2Conv")
    /\ ~args.use_gat => AllStacks(model, "GCN", "GCNConv")
    /\ \A k \in Kinds : AllStacks(ModelInit(Defaulted(k, 1, 1, 1, 1)), "GAT", "GATv2Conv")

\* A DCGNN of several cells constructed with use_gat = False has run all
\* its cells, every one of them on three GCN stacks.
UniformOperatorWitness ==
    /\ model.kind = "DCGNN"
    /\ ~args.use_gat
    /\ Len(model.cells) >= 2
    /\ pc = "done"
    /\ Len(trace) >= 2
    /\ AllStacks(model, "GCN", "GCNConv")

\* C13: once the label transform has run, y is 1 for exactly the stocks
\* whose return is higher than the sample's average market return, 0 for the
\* others.
LabelAboveMarket ==
    cell # "none" =>
        /\ Len(sample.y) = Len(sample.close_price)
        /\ \A n \in 1..Len(sample.y) :
              sample.y[n] = IF sample.returns[n] > sample.market_return[1] THEN 1 ELSE 0

\* C14: the accuracy and the confusion matrix reported as test results are
\* computed on samples of the test dataset only, which are the samples at the
\* indices from int(0.9 * len(dataset)) on and none of the training dataset,
\* and both on the same batch.
TestResultsOnTestData ==
    cell = "test results" =>
        /\ test_dataset = {k \in dataset : 10 * k >= 9 * Cardinality(dataset) - 9}
        /\ test_dataset \cap train_dataset = {}
        /\ acc_data # {}
        /\ acc_data \subseteq test_dataset
        /\ cm_data \subseteq test_dataset
        /\ acc_data = cm_data

\* What layer k (1-based) produced at timestep tt of the current pass; the
\* zero state before the first timestep.
Produced(tt, k) ==
    IF tt < 0 THEN Zeros(NodesOf(x), args.hidden_size)
    ELSE trace[tt * Len(model.cells) + k].res.h_new

\* C15 as stated: while a later layer of timestep t is still to be
\* computed, no layer's carried hidden state has been overwritten; all still
\* hold what the layers produced at timestep t-1.
UpdateAfterAllLayers ==
    (pc = "layer" /\ i < Len(model.cells)) =>
        \A k \in 1..Len(h_prev) : h_prev[k] = Produced(t - 1, k)

\* C15 (amended): each layer's carried hidden state is overwritten with its
\* freshly computed value right after its own cell, before the next layer of
\* the timestep is computed: inside timestep t the layers already computed
\* carry their value of timestep t and the layers still to be computed (the
\* only ones whose carried state is still to be read) their value of
\* timestep t-1; between timesteps and at the return all carry the value of
\* the last timestep computed.
UpdateAfterEachLayer ==
    /\ pc = "layer" =>
          \A k \in 1..Len(h_prev) :
              h_prev[k] = IF k <= i THEN Produced(t, k) ELSE Produced(t - 1, k)
    /\ pc = "record" => \A k \in 1..Len(h_prev) : h_prev[k] = Produced(t, k)
    /\ pc \in {"time", "done"} => \A k \in 1..Len(h_prev) : h_prev[k] = Produced(t - 1, k)

\* At a timestep t >= 1 the first layer has been computed, the second is
\* still to be, and the first layer's carried state already is its new value,
\* which differs from the one of timestep t-1.
UpdateAfterEachLayerWitness ==
    /\ pc = "layer"
    /\ t >= 1
    /\ i = 1
    /\ Len(model.cells) >= 2
    /\ h_prev[1] = Produced(t, 1)
    /\ h_prev[1] # Produced(t - 1, 1)
    /\ h_prev[2] = Produced(t - 1, 2)

\* The per-node weighted sum over the timesteps, sum_t w[n][t] * hf[t][n][:].
WeightedSum(hf, w) ==
    [n \in 1..NodesOf(x) |->
        [c \in 1..args.hidden_size |->
            SumSeq([k \in 1..Len(hf) |-> Mul(w[n][k], hf[k][n][c])])]]

\* C16: in A3TGCN the history buffer has one slot per timestep; all through
\* the pass the slots of the timesteps already ended hold the state the last
\* layer produced at their timestep and the others still hold the initial
\* zero, so each slot is written once, at the end of its timestep, and after
\* the loop none is left unwritten; the output is the readout of the per-node
\* attention-weighted sum of all the slots.
HistoryAndPooling ==
    (model.kind = "A3TGCN" /\ pc # "idle") =>
        /\ Len(h_final) = SeqLenOf(x)
        /\ \A k \in 1..Len(h_final) :
              h_final[k] = IF k <= t THEN Produced(k - 1, Len(model.cells))
                           ELSE Zeros(NodesOf(x), args.hidden_size)
        /\ pc = "done" =>
              /\ t = SeqLenOf(x)
              /\ out = Projected(WeightedSum(h_final, att))

\* An A3TGCN pass of two layers over two timesteps has ended: the two slots
\* differ, the last layer's states are not the first layer's, and the output
\* is not the readout of the last timestep's state.
HistoryAndPoolingWitness ==
    /\ pc = "done"
    /\ model.kind = "A3TGCN"
    /\ Len(model.cells) = 2
    /\ Len(h_final) = 2
    /\ h_final[1] # h_final[2]
    /\ h_final[1] # Zeros(NodesOf(x), args.hidden_size)
    /\ h_final[1] # Produced(0, 1)
    /\ out # Projected(h_final[2])

\* Row by row, the concatenation [a, b, c] along the feature axis.
Concat3(a, b, c) == [n \in 1..Len(a) |-> a[n] \o b[n] \o c[n]]

\* The reset gate applied to the hidden state, entry by entry.
ResetState(r, hh) ==
    [n \in 1..Len(hh) |-> [k \in 1..Len(hh[n]) |-> Mul(r[n][k], hh[n][k])]]

\* The invocation e of a fused-gate cell computed what Eq. 2 to 6 say.
FusedDataFlow(e) ==
    LET cl == model.cells[e.i + 1]
        xx == e.args.x_in
        hh == e.args.h_in
        g == e.res.gcn_out
    IN  /\ e.res.stacks = 1
        /\ g = MapSigmoid(StackForward(cl.gcn, xx, e.args.edge_index, e.args.edge_weight))
        /\ e.res.u = MapSigmoid(Linear(cl.lin_u, Concat3(xx, g, hh)))
        /\ e.res.r = MapSigmoid(Linear(cl.lin_r, Concat3(xx, g, hh)))
        /\ e.res.c = MapTanh(Linear(cl.lin_c, Concat3(xx, g, ResetState(e.res.r, hh))))
        /\ \A n \in 1..Len(hh) : \A k \in 1..Len(hh[n]) :
              /\ e.res.h_new[n][k] = Mul(e.res.u[n][k], hh[n][k])
                                      + Mul(One - e.res.u[n][k], e.res.c[n][k])
              /\ e.res.u[n][k] = One => e.res.h_new[n][k] = hh[n][k]
              /\ e.res.u[n][k] = 0 => e.res.h_new[n][k] = e.res.c[n][k]

\* C17: every invocation of TGCNCell.forward computes one graph-convolution
\* result g = sigmoid(stack(x)) shared by the three gates, u and r from
\* [x, g, h_prev], c from [x, g, r * h_prev], and returns
\* u * h_prev + (1 - u) * c: h_prev where u is 1, c where u is 0.
FusedGateDataFlow ==
    \A k \in 1..Len(trace) : trace[k].cell = "TGCNCell" => FusedDataFlow(trace[k])

\* A fused-gate cell has been applied to a nonzero hidden state that its
\* reset gate does not let through whole, and the candidate is not the one
\* the unreset state would have given.
FusedGateDataFlowWitness ==
    /\ pc = "applied"
    /\ Len(trace) = 1
    /\ LET e == trace[1]
           cl == model.cells[1]
       IN  /\ e.cell = "TGCNCell"
           /\ ResetState(e.res.r, e.args.h_in) # e.args.h_in
           /\ e.res.c # MapTanh(Linear(cl.lin_c,
                                        Concat3(e.args.x_in, e.res.gcn_out, e.args.h_in)))
           /\ e.res.h_new # e.args.h_in
           /\ e.res.h_new # e.res.c

\* Row by row, the concatenation [a, b] along the feature axis.
Concat2(a, b) == [n \in 1..Len(a) |-> a[n] \o b[n]]

\* The stack applications of the pass so far.
StackApplications == SumSeq([k \in 1..Len(trace) |-> trace[k].res.stacks])

\* The invocation e of a split-gate cell applied its own three stacks: the
\* reset and update stacks to [x, h_prev], the candidate stack to
\* [x, r * h_prev].
SplitDataFlow(e) ==
    LET cl == model.cells[e.i + 1]
        xx == e.args.x_in
        hh == e.args.h_in
        ei == e.args.edge_index
        ew == e.args.edge_weight
    IN  /\ {"gcn_r", "gcn_u", "gcn_c"} \subseteq DOMAIN cl
        /\ "gcn" \notin DOMAIN cl
        /\ e.res.stacks = 3
        /\ e.res.r = MapSigmoid(StackForward(cl.gcn_r, Concat2(xx, hh), ei, ew))
        /\ e.res.u = MapSigmoid(StackForward(cl.gcn_u, Concat2(xx, hh), ei, ew))
        /\ e.res.c = MapTanh(StackForward(cl.gcn_c,
                                           Concat2(xx, ResetState(e.res.r, hh)), ei, ew))
        /\ \A n \in 1..Len(hh) : \A k \in 1..Len(hh[n]) :
              e.res.h_new[n][k] = Mul(e.res.u[n][k], hh[n][k])
                                  + Mul(One - e.res.u[n][k], e.res.c[n][k])

\* C18: every invocation of DCGRUCell.forward applies the cell's three
\* stacks (reset and update on [x, h_prev], candidate on [x, r * h_prev]) and
\* returns u * h_prev + (1 - u) * c; a finished DCGNN pass over T timesteps and
\* L layers has made 3*T*L stack applications, a finished TGCN pass T*L.
SplitGateCost ==
    /\ \A k \in 1..Len(trace) : trace[k].cell = "DCGRUCell" => SplitDataFlow(trace[k])
    /\ (pc = "done" /\ model.kind = "DCGNN") =>
          StackApplications = 3 * SeqLenOf(x) * Len(model.cells)
    /\ (pc = "done" /\ model.kind = "TGCN") =>
          StackApplications = SeqLenOf(x) * Len(model.cells)

\* A DCGNN pass of two layers over two timesteps has ended after twelve stack
\* applications; in one of its invocations the reset gate changed the hidden
\* state the candidate stack was given, and the candidate is not what the
\* reset stack gives on that input.
SplitGateCostWitness ==
    /\ pc = "done"
    /\ model.kind = "DCGNN"
    /\ Len(model.cells) = 2
    /\ SeqLenOf(x) = 2
    /\ StackApplications = 12
    /\ \E k \in 1..Len(trace) :
          LET e == trace[k]
              x_rh == Concat2(e.args.x_in, ResetState(e.res.r, e.args.h_in))
          IN  /\ ResetState(e.res.r, e.args.h_in) # e.args.h_in
              /\ e.res.c # MapTanh(StackForward(model.cells[e.i + 1].gcn_r, x_rh,
                                                 e.args.edge_index, e.args.edge_weight))

\* What convolution k (1-based) of the stack under study is given when every
\* convolution before it is applied once, in list order, and rectified.
RECURSIVE ConvInput(_)
ConvInput(k) ==
    IF k = 1 THEN x
    ELSE MapRelu(ConvApply(model.convs[k - 1], ConvInput(k - 1), edge_index, edge_weight))

\* The raw output of the last convolution of the stack under study.
LastRaw ==
    ConvApply(model.convs[Len(model.convs)], ConvInput(Len(model.convs)),
              edge_index, edge_weight)

AnyNegative(m) == \E n \in 1..Len(m) : \E k \in 1..Len(m[n]) : m[n][k] < 0

\* C19: a stack has one convolution per entry of layer_sizes and applies
\* them in list order, each once; GCN.forward returns the last convolution's
\* output rectified, so componentwise >= 0, and GAT.forward returns it raw,
\* the earlier ones being rectified in both; also for a single entry.
StackNonlinearity ==
    pc = "returned" =>
        /\ Len(model.convs) = Len(args.layer_sizes)
        /\ model.stack = "GCN" => /\ out = MapRelu(LastRaw)
                                   /\ ~AnyNegative(out)
        /\ model.stack = "GAT" => out = LastRaw
        /\ Len(args.layer_sizes) = 1 =>
              LET y == ConvApply(model.convs[1], x, edge_index, edge_weight)
              IN  out = IF model.stack = "GCN" THEN MapRelu(y) ELSE y

\* A GAT stack of a single convolution has returned an output with a
\* negative entry.
StackNonlinearityWitness ==
    /\ pc = "returned"
    /\ model.stack = "GAT"
    /\ Len(model.convs) = 1
    /\ AnyNegative(out)

\* The gate operators of the cell cl were built for the width of what the
\* cell concatenates: input, graph-convolution result and hidden state for
\* the linears of TGCNCell, input and hidden state for the stacks of DCGRUCell.
BuiltFor(cl) ==
    IF cl.cell = "TGCNCell"
    THEN /\ cl.gcn.convs[1].in_channels = cl.in_channels
         /\ cl.gcn.convs[Len(cl.gcn.convs)].out_channels = cl.hidden_size
         /\ \A lin \in {cl.lin_u, cl.lin_r, cl.lin_c} :
               /\ lin.in_features = cl.in_channels + 2 * cl.hidden_size
               /\ Len(lin.W) = cl.hidden_size
    ELSE \A net \in {cl.gcn_r, cl.gcn_u, cl.gcn_c} :
               /\ net.convs[1].in_channels = cl.in_channels + cl.hidden_size
               /\ net.convs[Len(net.convs)].out_channels = cl.hidden_size

\* The invocation e was given, and gave back, the widths its cell was built
\* for.
WidthsFit(e) ==
    LET cl == model.cells[e.i + 1]
        fed == IF cl.cell = "TGCNCell"
               THEN Cols(e.args.x_in) + Cols(e.res.gcn_out) + Cols(e.args.h_in)
               ELSE Cols(e.args.x_in) + Cols(e.args.h_in)
    IN  /\ Cols(e.args.x_in) = cl.in_channels
        /\ Cols(e.args.h_in) = cl.hidden_size
        /\ Cols(e.res.h_new) = cl.hidden_size
        /\ Cols(e.res.u) = cl.hidden_size
        /\ Cols(e.res.c) = cl.hidden_size
        /\ fed = IF cl.cell = "TGCNCell" THEN cl.lin_u.in_features
                  ELSE cl.gcn_u.convs[1].in_channels

\* C20: the first cell is built for in_channels features and every later
\* cell for hidden_size, every cell gives hidden_size, the gate operators are
\* built for the width of the cell's concatenation, every invocation is given
\* exactly these widths, and when x has in_channels features (on a graph
\* whose edges name existing nodes) no invocation of the unroll raises.
WidthConsistency ==
    /\ \A k \in 1..Len(model.cells) :
          /\ model.cells[k].in_channels = IF k = 1 THEN args.in_channels ELSE args.hidden_size
          /\ model.cells[k].hidden_size = args.hidden_size
          /\ BuiltFor(model.cells[k])
    /\ \A k \in 1..Len(trace) : WidthsFit(trace[k])
    /\ (pc = "layer" /\ ~Mismatch) => Invoke.ok
    /\ pc = "failed" => Mismatch

\* A pass of a two-layer model whose hidden_size is not its in_channels has
\* ended after two timesteps: its second cell was given hidden_size features
\* where the first was given in_channels.
WidthConsistencyWitness ==
    /\ pc = "done"
    /\ args.in_channels # args.hidden_size
    /\ Len(model.cells) = 2
    /\ SeqLenOf(x) = 2
    /\ Len(trace) = 4
    /\ Cols(trace[3].args.x_in) = args.in_channels
    /\ Cols(trace[4].args.x_in) = args.hidden_size

\* max(1, layers_nb)
LayersRun == IF args.layers_nb > 1 THEN args.layers_nb ELSE 1

\* The invocations made so far are those of the pairs (timestep, layer) in
\* lexicographic order, each once.
Lexicographic ==
    \A k \in 1..Len(trace) :
        /\ trace[k].t = (k - 1) \div LayersRun
        /\ trace[k].i = (k - 1) % LayersRun

\* The pass has ended, by a return or by an exception.
Ended == pc \in {"done", "failed"}

\* How far the unroll has come, in invocations.
UnrollProgress ==
    /\ Len(model.cells) = LayersRun
    /\ Lexicographic
    /\ pc = "time" => Len(trace) = t * LayersRun
    /\ pc = "layer" => Len(trace) = t * LayersRun + i /\ i < LayersRun /\ t < SeqLenOf(x)
    /\ pc = "record" => Len(trace) = (t + 1) * LayersRun
    /\ pc = "done" =>
          /\ Len(trace) = SeqLenOf(x) * LayersRun
          /\ SeqLenOf(x) = 0 =>
                /\ trace = <<>>
                /\ model.kind \in {"TGCN", "DCGNN"} =>
                      out = Projected(Zeros(NodesOf(x), args.hidden_size))

\* C21: every pass under way ends, and one that returns has made exactly
\* T * max(1, layers_nb) cell invocations, one per (timestep, layer) pair in
\* lexicographic order, none made again; over an empty window no cell is
\* invoked and TGCN and DCGNN return the readout of the all-zero state.
UnrollTerminates == []UnrollProgress /\ (InPass ~> Ended)

\* A pass of two layers over two timesteps has returned after the four
\* invocations (0,0), (0,1), (1,0), (1,1).
UnrollTerminatesWitness ==
    /\ pc = "done"
    /\ args.layers_nb = 2
    /\ SeqLenOf(x) = 2
    /\ [k \in 1..Len(trace) |-> <<trace[k].t, trace[k].i>>]
          = <<(<<0, 0>>), (<<0, 1>>), (<<1, 0>>), (<<1, 1>>)>>

CellInvoked == pc = "layer" /\ Len(trace') = Len(trace) + 1

\* The step that invokes the cell of layer i gives it the loop's input and
\* layer i's carried state, from which alone its result follows, writes the
\* result to layer i's carried state and leaves those of the other layers,
\* and their number, as they were.
LayerFrameStep ==
    CellInvoked =>
        LET e == trace'[Len(trace')]
        IN  /\ e.i = i
            /\ e.args.x_in = h
            /\ e.args.h_in = h_prev[i + 1]
            /\ e.res = CellForward(model.cells[i + 1], h, edge_index, edge_weight,
                                   h_prev[i + 1])
            /\ Len(h_prev') = Len(h_prev)
            /\ h_prev'[i + 1] = e.res.h_new
            /\ \A j \in 1..Len(h_prev) : j # i + 1 => h_prev'[j] = h_prev[j]

\* From the call to the end of the pass there is one carried hidden state
\* per cell.
OneStatePerCell == pc # "idle" => Len(h_prev) = Len(model.cells)

\* C23: the invocation of layer i at timestep t reads only its input and
\* layer i's carried hidden state and changes only layer i's carried hidden
\* state; those of the other layers are left unchanged by the step, and the
\* number of carried hidden states stays the number of cells.
LayerFrame == []OneStatePerCell /\ [][LayerFrameStep]_vars

\* The second layer has just been invoked at timestep 1 with its own state
\* of timestep 0: the first layer's carried state, which differs from the
\* second's old and new ones, is still what the first layer gave at timestep 1.
LayerFrameWitness ==
    /\ Len(trace) = 4
    /\ Len(h_prev) = 2
    /\ trace[4].i = 1
    /\ trace[4].args.h_in = trace[2].res.h_new
    /\ h_prev[1] = trace[3].res.h_new
    /\ h_prev[2] = trace[4].res.h_new
    /\ h_prev[1] # h_prev[2]
    /\ h_prev[1] # trace[4].args.h_in
    /\ h_prev[2] # trace[4].args.h_in

====
